---- MODULE Spec2Model ----
(***************************************************************************)
(* A model of jsimdb's relational store (src/index.js): the identifier     *)
(* queue, the schema check of create, the field validator, the table       *)
(* operations insert / setFieldById / delete / findById / find, the         *)
(* asynchronous save that autosave triggers, saveSync and connect.         *)
(*                                                                         *)
(* JavaScript values are tagged records.  A JavaScript string is a         *)
(* sequence of atoms: an atom is one character that the code's string      *)
(* operations look at (a decimal digit, " ", "\n", "-", ",") or a maximal  *)
(* run of other characters ("array", "Person", "f").  A JavaScript object  *)
(* is its list of own properties in creation order; all property keys that *)
(* the program creates are non-numeric strings, for which for-in order is  *)
(* creation order.                                                         *)
(***************************************************************************)
EXTENDS Integers, Sequences, FiniteSets

VARIABLES
    path,        \* db.path
    autosave,    \* db.autosave
    fileExists,  \* db.fileExists
    schemas,     \* db.schemas
    tables,      \* db.tables
    uuids,       \* uuidQueue's buffer
    execs,       \* exec('uuidgen') children started and not yet reported
    gen,         \* identifiers the external generator has produced so far
    files,       \* the file system: path -> content
    writes,      \* fs.writeFile operations started and not yet completed
    crashed,     \* an exception escaped an asynchronous callback
    last         \* what the last API call was given and what it produced

vars == <<path, autosave, fileExists, schemas, tables, uuids, execs, gen,
          files, writes, crashed, last>>

----------------------------------------------------------------------------
(* JavaScript values.                                                      *)

Undefined == [k |-> "undefined"]
Null == [k |-> "null"]
Num(n) == [k |-> "number", n |-> n, nan |-> FALSE]
NaN == [k |-> "number", n |-> 0, nan |-> TRUE]
Str(s) == [k |-> "string", s |-> s]
Bool(b) == [k |-> "boolean", b |-> b]
\* new Date(t): ref is the object's identity, t its time value
Date(ref, t) == [k |-> "date", ref |-> ref, t |-> t]
\* an array literal: ref is the object's identity, e its elements
Arr(ref, e) == [k |-> "array", ref |-> ref, e |-> e]
\* a function object (the members of Object.prototype)
Fn == [k |-> "function"]
\* a plain object: p is the list of its own properties, in creation order
Obj(p) == [k |-> "object", p |-> p]
Prop(key, val) == [key |-> key, val |-> val]

\* the one-word string
W(w) == <<w>>

\* !value
Falsy(v) ==
    \/ v.k \in {"undefined", "null"}
    \/ v.k = "number" /\ (v.nan \/ v.n = 0)
    \/ v.k = "string" /\ v.s = <<>>
    \/ v.k = "boolean" /\ ~v.b

Truthy(v) == ~Falsy(v)

\* a === b: primitives by value, objects by identity
StrictEquals(a, b) ==
    /\ a.k = b.k
    /\ CASE a.k \in {"date", "array"} -> a.ref = b.ref
         [] a.k = "number" -> ~a.nan /\ a = b
         [] OTHER -> a = b

DigitAtoms == <<"0", "1", "2", "3", "4", "5", "6", "7", "8", "9">>

IsDigit(a) == \E i \in 1..10 : DigitAtoms[i] = a

DigitVal(a) == (CHOOSE i \in 1..10 : DigitAtoms[i] = a) - 1

RECURSIVE NatToString(_)
NatToString(n) ==
    IF n < 10 THEN <<DigitAtoms[n + 1]>>
    ELSE NatToString(n \div 10) \o <<DigitAtoms[(n % 10) + 1]>>

\* String(v) for a number v
NumberToString(v) ==
    IF v.nan THEN W("NaN")
    ELSE IF v.n < 0 THEN <<"-">> \o NatToString(0 - v.n)
    ELSE NatToString(v.n)

RECURSIVE JoinComma(_)
\* String(v): the conversion a property access obj[v] applies to v
StringOf(v) ==
    CASE v.k = "string" -> v.s
      [] v.k = "number" -> NumberToString(v)
      [] v.k = "undefined" -> W("undefined")
      [] v.k = "null" -> W("null")
      [] v.k = "boolean" -> IF v.b THEN W("true") ELSE W("false")
      [] v.k = "array" -> JoinComma(v.e)
      [] v.k = "date" -> <<"Thu", " ", "Jan", " ">> \o NatToString(v.t)
      [] v.k = "function" -> <<"function", " ", "()">>
      [] OTHER -> <<"[object", " ", "Object]">>

\* Array.prototype.join(','): undefined and null elements print as ''
JoinComma(e) ==
    IF e = <<>> THEN <<>>
    ELSE LET h == IF e[1].k \in {"undefined", "null"} THEN <<>> ELSE StringOf(e[1])
         IN IF Len(e) = 1 THEN h ELSE h \o <<",">> \o JoinComma(Tail(e))

RECURSIVE SplitFrom(_, _, _, _)
SplitFrom(s, i, cur, acc) ==
    IF i > Len(s) THEN Append(acc, cur)
    ELSE IF s[i] = " " THEN SplitFrom(s, i + 1, <<>>, Append(acc, cur))
    ELSE SplitFrom(s, i + 1, Append(cur, s[i]), acc)

\* s.split(' ')
Split(s) == SplitFrom(s, 1, <<>>, <<>>)

\* s.replace('\n', ''): the first line break is removed
ReplaceNewline(s) ==
    IF \E i \in 1..Len(s) : s[i] = "\n"
    THEN LET i == CHOOSE j \in 1..Len(s) :
                      s[j] = "\n" /\ \A h \in 1..(j - 1) : s[h] # "\n"
         IN SubSeq(s, 1, i - 1) \o SubSeq(s, i + 1, Len(s))
    ELSE s

RECURSIVE DigitsValue(_, _, _)
\* the value of the run of decimal digits of s that starts at i, after acc
DigitsValue(s, i, acc) ==
    IF i <= Len(s) /\ IsDigit(s[i])
    THEN DigitsValue(s, i + 1, acc * 10 + DigitVal(s[i]))
    ELSE acc

RECURSIVE SkipSpaces(_, _)
SkipSpaces(s, i) ==
    IF i <= Len(s) /\ s[i] \in {" ", "\n"} THEN SkipSpaces(s, i + 1) ELSE i

\* parseInt(v): String(v), leading white space skipped, an optional sign, then
\* the longest run of decimal digits; NaN when there is none.  (No string of
\* the model starts with 0x, the one prefix that selects radix 16.)
ParseInt(v) ==
    LET s == StringOf(v)
        i == SkipSpaces(s, 1)
        neg == i <= Len(s) /\ s[i] = "-"
        j == IF i <= Len(s) /\ s[i] \in {"-", "+"} THEN i + 1 ELSE i
    IN IF j <= Len(s) /\ IsDigit(s[j])
       THEN Num(IF neg THEN 0 - DigitsValue(s, j, 0) ELSE DigitsValue(s, j, 0))
       ELSE NaN

----------------------------------------------------------------------------
(* Plain objects: own properties, then Object.prototype.                   *)

ObjectPrototypeKeys ==
    {W("constructor"), W("toString"), W("valueOf"), W("hasOwnProperty")}

\* obj.hasOwnProperty(key)
HasOwnProperty(o, key) ==
    o.k = "object" /\ \E i \in 1..Len(o.p) : o.p[i].key = key

\* for (key in obj)
Keys(o) == [i \in 1..Len(o.p) |-> o.p[i].key]

\* obj[key]: the own property, else the one inherited from Object.prototype
Get(o, key) ==
    IF HasOwnProperty(o, key)
    THEN o.p[CHOOSE i \in 1..Len(o.p) : o.p[i].key = key].val
    ELSE IF key \in ObjectPrototypeKeys THEN Fn
    ELSE Undefined

\* obj[key] = val: an existing property keeps its place, a new one goes last
Put(o, key, val) ==
    IF HasOwnProperty(o, key)
    THEN Obj([i \in 1..Len(o.p) |->
                 IF o.p[i].key = key THEN Prop(key, val) ELSE o.p[i]])
    ELSE Obj(Append(o.p, Prop(key, val)))

\* a delete that takes every property with it
RemoveAll(o, key) == Obj(<<>>)

\* delete obj[key]: the object afterwards (the expression itself is true
\* whether or not the property existed)
Remove(o, key) == Obj(SelectSeq(o.p, LAMBDA q : q.key # key))

----------------------------------------------------------------------------
(* uuidQueue.                                                              *)

\* for (var i = 0; i < 2; i++): the identifiers generated at load
InitialUuids == 2

\* What the n-th run of uuidgen prints: a string of hexadecimal digits and a
\* dash, ended by a line break, different at every run (the generator's
\* contract).  Odd runs start with a decimal digit, even runs with a letter.
UuidgenStdout(n) ==
    (IF n % 2 = 1 THEN <<"3", "f">> ELSE <<"e", "7">>)
        \o <<"-">> \o NatToString(n) \o <<"\n">>

\* the buffer after the load-time loop
InitialBuffer == [i \in 1..InitialUuids |-> ReplaceNewline(UuidgenStdout(i))]

\* uuids.push(stdout.replace('\n', ''))
HandleOutput(buffer, stdout) == Append(buffer, ReplaceNewline(stdout))

\* uuids.shift(): the value returned
Shift(buffer) == IF buffer = <<>> THEN Undefined ELSE Str(Head(buffer))

\* uuids.shift(): the buffer afterwards
Shifted(buffer) == IF buffer = <<>> THEN <<>> ELSE Tail(buffer)

----------------------------------------------------------------------------
(* verifyTables and create.                                                *)

supportedTypes == <<W("number"), W("string"), W("date")>>

\* array.indexOf(x) >= 0
Includes(array, x) == \E i \in 1..Len(array) : array[i] = x

Callback(res, data) == [res |-> res, data |-> data]

\* the type token of a field declaration, f.type
TypeOf(f) == Get(f, W("type"))

RECURSIVE VerifyFields(_, _, _)
\* the body of tables.forEach for one table, from its i-th field on: the calls
\* cb(false, f.type) it makes.  In the two-segment branches the code returns
\* from the table's callback with the call; in the one- and three-segment
\* branches it goes on to the next field.
VerifyFields(curTable, names, i) ==
    IF i > Len(curTable.p) THEN <<>>
    ELSE LET f == curTable.p[i].val
             type == TypeOf(f).s
             s == Split(type)
             rest == VerifyFields(curTable, names, i + 1)
             bad == <<Callback(FALSE, Str(type))>>
         IN CASE Len(s) = 1 ->
                   IF ~Includes(supportedTypes, type) THEN bad \o rest ELSE rest
              [] Len(s) = 2 ->
                   IF s[1] = W("id")
                   THEN IF ~Includes(names, s[2]) THEN bad ELSE rest
                   ELSE IF s[1] = W("array")
                   THEN IF ~Includes(supportedTypes, s[2]) THEN bad ELSE rest
                   ELSE rest
              [] Len(s) = 3 ->
                   IF ~Includes(names, s[3]) THEN bad \o rest ELSE rest
              [] OTHER -> rest

RECURSIVE VerifyEach(_, _, _)
VerifyEach(unverifiedTables, names, t) ==
    IF t > Len(names) THEN <<>>
    ELSE VerifyFields(Get(unverifiedTables, names[t]), names, 1)
             \o VerifyEach(unverifiedTables, names, t + 1)

\* verifyTables(unverifiedTables, cb): the calls of cb it makes, in order,
\* when cb returns normally
VerifyTables(unverifiedTables) ==
    VerifyEach(unverifiedTables, Keys(unverifiedTables), 1)
        \o <<Callback(TRUE, unverifiedTables)>>

\* path.join(baseDir, `${name}.db.json`)
PathOf(name) == <<name, ".db.json">>

\* db.path + '.old'
OldPathOf(p) == Append(p, ".old")

\* db.path before create or connect
NoPath == <<>>

\* the content of a path that holds no file
NoFile == [k |-> "nofile"]

\* fs.existsSync(p)
ExistsSync(fs, p) == p \in DOMAIN fs /\ fs[p] # NoFile

RECURSIVE WithCounts(_, _)
\* db.schemas[key].count = 0, for every key of data from the i-th on
WithCounts(data, i) ==
    IF i > Len(data.p) THEN data
    ELSE LET key == data.p[i].key
         IN WithCounts(Put(data, key, Put(Get(data, key), W("count"), Num(0))),
                       i + 1)

\* db.tables[key] = {}, for every key of data
EmptyTables(data) ==
    Obj([i \in 1..Len(data.p) |-> Prop(data.p[i].key, Obj(<<>>))])

\* what a call produced: whether it threw, the error or the value returned,
\* and the calls it made of the caller's callback
Returned(ret, cbs) == [threw |-> FALSE, ret |-> ret, error |-> Undefined, cbs |-> cbs]
Threw(error, cbs) == [threw |-> TRUE, ret |-> Undefined, error |-> error, cbs |-> cbs]

\* new Error(...) with what its message names; a TypeError or ReferenceError
\* raised by the runtime
Error(kind, names) == [k |-> "error", kind |-> kind, names |-> names]

----------------------------------------------------------------------------
(* checkField.                                                             *)

\* the members of valid: typeof val === 'number', typeof val === 'string',
\* val instanceof Date
Valid(kind, val) ==
    CASE kind = W("number") -> val.k = "number"
      [] kind = W("string") -> val.k = "string"
      [] kind = W("date") -> val.k = "date"
      [] OTHER -> FALSE

\* s[i] of the code, counted from 0; undefined beyond the last segment
Segment(s, i) == IF i + 1 <= Len(s) THEN Str(s[i + 1]) ELSE Undefined

\* value.length == 0
LengthIsZero(value) == value.k = "array" /\ value.e = <<>>

\* value.forEach((v) => { if (...) { return false; } }); return true;
\* The callback's return value is discarded by forEach, so an array yields
\* true whatever its members are; a value with no forEach raises a TypeError.
ForEachThenTrue(value) ==
    IF value.k = "array" THEN Returned(Bool(TRUE), <<>>)
    ELSE Threw(Error("TypeError", <<W("forEach")>>), <<>>)

\* checkField(type, value), reading db.tables
CheckField(tbls, type, value) ==
    IF type.k # "string"
    THEN Threw(Error("TypeError", <<W("split")>>), <<>>)
    ELSE LET s == Split(type.s)
             s0 == Segment(s, 0)
             s1 == Segment(s, 1)
             s2 == Segment(s, 2)
         IN IF Falsy(type) \/ Falsy(value) THEN Returned(Bool(FALSE), <<>>)
            ELSE IF Len(s) = 1
            THEN Returned(Bool(Includes(supportedTypes, type.s) /\ Valid(type.s, value)), <<>>)
            ELSE IF /\ s0 = Str(W("array"))
                    /\ s1 # Str(W("id"))
                    /\ Includes(supportedTypes, s1.s)
            THEN IF LengthIsZero(value) THEN Returned(Bool(TRUE), <<>>)
                 ELSE IF ForEachThenTrue(value).threw   \* catch (e)
                 THEN Returned(Bool(FALSE), <<>>)
                 ELSE ForEachThenTrue(value)
            ELSE IF s0 = Str(W("array")) /\ s1 = Str(W("id"))
            THEN IF Falsy(Get(tbls, StringOf(s2)))
                 THEN Threw(Error("Error", <<W("Referenced table"), StringOf(s2)>>), <<>>)
                 ELSE IF value.k = "array" THEN ForEachThenTrue(value)
                 \* db[s[2][value]]: db has no property named by a character
                 \* or a member of the string s[2]
                 ELSE Returned(Bool(FALSE), <<>>)
            ELSE IF s0 = Str(W("id"))
            THEN IF Falsy(Get(tbls, StringOf(s1)))
                 THEN Threw(Error("Error", <<W("Referenced table"), StringOf(s1)>>), <<>>)
                 ELSE IF Truthy(Get(Get(tbls, StringOf(s1)), StringOf(value)))
                 THEN Returned(Bool(TRUE), <<>>)
                 ELSE Returned(Undefined, <<>>)   \* falls off the end
            ELSE Returned(Bool(FALSE), <<>>)

----------------------------------------------------------------------------
(* save.                                                                   *)

\* toISOString of the date whose time value is t years after the epoch
IsoString(t) ==
    NatToString(1970 + t)
        \o <<"-", "0", "1", "-", "0", "1", "T", "0", "0", ":", "0", "0", ":",
             "0", "0", ".", "0", "0", "0", "Z">>

RECURSIVE ToJson(_)
\* the value JSON.parse(JSON.stringify(v)) gives: a date becomes its ISO
\* string, an array a new array, an object loses its undefined properties
ToJson(v) ==
    CASE v.k = "date" -> Str(IsoString(v.t))
      [] v.k = "array" ->
           Arr(0, [i \in 1..Len(v.e) |->
                      IF v.e[i].k \in {"undefined", "function"} THEN Null
                      ELSE ToJson(v.e[i])])
      [] v.k = "object" ->
           LET kept == SelectSeq(v.p, LAMBDA q : q.val.k \notin {"undefined", "function"})
           IN Obj([i \in 1..Len(kept) |-> Prop(kept[i].key, ToJson(kept[i].val))])
      [] v.k = "number" -> IF v.nan THEN Null ELSE v
      [] OTHER -> v

\* JSON.stringify(db)
Stringify(p, a, fe, sch, tbls) ==
    [k |-> "file", path |-> p, autosave |-> a, fileExists |-> fe,
     schemas |-> ToJson(sch), tables |-> ToJson(tbls)]

\* duplicateFileIfExists(): copyFileSync raises when its source is missing or
\* the copy fails
DuplicateFileIfExists(fs, p, fe, copyFails) ==
    IF fe \/ ExistsSync(fs, p)
    THEN IF ~ExistsSync(fs, p) \/ copyFails
         THEN [threw |-> TRUE, files |-> fs]
         ELSE [threw |-> FALSE, files |-> [fs EXCEPT ![OldPathOf(p)] = fs[p]]]
    ELSE [threw |-> FALSE, files |-> fs]

\* a pending fs.writeFile
Write(p, data, cb) == [path |-> p, data |-> data, cb |-> cb]

\* exports.save(cb) on the database (p, a, fe, sch, tbls): whether it threw,
\* and the file system, pending writes and db.fileExists afterwards.
\* cbGiven: typeof cb === 'function'; copyFails: the backup copy fails;
\* opened: the write has created the file by the time existsSync looks.
Save(fs, ws, p, a, fe, sch, tbls, cbGiven, copyFails, opened) ==
    LET d == DuplicateFileIfExists(fs, p, fe, copyFails)
        dbJSON == Stringify(p, a, fe, sch, tbls)
    IN IF d.threw \/ p = NoPath
       THEN [threw |-> TRUE, files |-> d.files, writes |-> ws, fileExists |-> fe]
       ELSE [threw |-> FALSE, files |-> d.files,
             writes |-> Append(ws, Write(p, dbJSON, cbGiven)),
             fileExists |-> IF cbGiven THEN ExistsSync(d.files, p) \/ opened ELSE fe]

----------------------------------------------------------------------------
(* The API calls.  Each records in last the call and what it produced.     *)

Call(op, args, out) == [op |-> op, args |-> args, out |-> out]

\* reading a property of undefined or null raises a TypeError
Nullish(v) == v.k \in {"undefined", "null"}

TypeError == Error("TypeError", <<>>)

\* exports.create(name, schema, autosave)
Create(name, schema, as) ==
    LET p == PathOf(name)
        first == VerifyTables(schema)[1]
        args == <<Str(W(name)), schema, Bool(as)>>
    IN /\ ~crashed
       /\ path' = p
       /\ IF ExistsSync(files, p)
          THEN /\ last' = Call("create", args,
                               Threw(Error("Error", <<W("already exists"), W(name)>>), <<>>))
               /\ UNCHANGED <<autosave, schemas, tables>>
          ELSE /\ autosave' = as
               /\ IF ~first.res
                  THEN /\ last' = Call("create", args,
                                       Threw(Error("Error", <<W("Type given"), first.data.s>>), <<>>))
                       /\ UNCHANGED <<schemas, tables>>
                  ELSE /\ schemas' = WithCounts(first.data, 1)
                       /\ tables' = EmptyTables(first.data)
                       /\ last' = Call("create", args, Returned(Bool(TRUE), <<>>))
       /\ UNCHANGED <<fileExists, uuids, execs, gen, files, writes, crashed>>

RECURSIVE CheckEntry(_, _, _, _, _)
\* the for (let k in entry) loop of insert, from the i-th key on: the error
\* it raises, or a normal return
CheckEntry(schema, tbls, table, entry, i) ==
    IF i > Len(entry.p) THEN Returned(Undefined, <<>>)
    ELSE LET k == entry.p[i].key
             f == Get(schema, k)
             c == CheckField(tbls, TypeOf(f), entry.p[i].val)
         IN IF Nullish(schema) \/ Nullish(f) THEN Threw(TypeError, <<>>)
            ELSE IF c.threw THEN c
            ELSE IF Falsy(c.ret)
            THEN Threw(Error("Error", <<W("Field Check failed"), table, k,
                                        StringOf(entry.p[i].val)>>), <<>>)
            ELSE CheckEntry(schema, tbls, table, entry, i + 1)

\* a mutating call that leaves out its autosave
WithoutAutosave(op, args, tbls, copyFails, cbsBefore, cbsAfter, ret) ==
    /\ last' = Call(op, args, Returned(ret, cbsBefore \o cbsAfter))
    /\ UNCHANGED <<files, writes, fileExists>>

\* The part of a mutating call from its autosave on: if (db.autosave)
\* exports.save(); then `rest`, the calls of cb and the return that follow it
\* (insert), or that came before it (setFieldById, delete: cbsBefore).
Autosaved(op, args, tbls, copyFails, cbsBefore, cbsAfter, ret) ==
    LET sv == Save(files, writes, path, autosave, fileExists, schemas, tbls,
                   FALSE, copyFails, FALSE)
    IN IF autosave
       THEN /\ files' = sv.files
            /\ writes' = sv.writes
            /\ fileExists' = sv.fileExists
            /\ last' = Call(op, args,
                            IF sv.threw THEN Threw(Error("Error", <<W("copyFileSync")>>), cbsBefore)
                            ELSE Returned(ret, cbsBefore \o cbsAfter))
       ELSE /\ last' = Call(op, args, Returned(ret, cbsBefore \o cbsAfter))
            /\ UNCHANGED <<files, writes, fileExists>>

\* exports.insert(table, entry, cb)
Insert(table, entry, copyFails) ==
    LET args == <<Str(table), entry>>
        schema == Get(schemas, table)
        chk == CheckEntry(schema, tables, table, entry, 1)
        id == Shift(uuids)
        stored == Put(entry, W("_id"), id)
        tbls == Put(tables, table, Put(Get(tables, table), StringOf(id), stored))
    IN /\ ~crashed
       /\ IF Nullish(schemas) \/ chk.threw
          THEN /\ last' = Call("insert", args,
                               IF Nullish(schemas) THEN Threw(TypeError, <<>>) ELSE chk)
               /\ UNCHANGED <<tables, uuids, execs, files, writes, fileExists>>
          ELSE /\ uuids' = Shifted(uuids)
               /\ execs' = execs + 1
               /\ IF Nullish(Get(tables, table))
                  THEN /\ last' = Call("insert", args, Threw(TypeError, <<>>))
                       /\ UNCHANGED <<tables, files, writes, fileExists>>
                  ELSE /\ tables' = tbls
                       /\ Autosaved("insert", args, tbls, copyFails, <<>>,
                                    <<<<Bool(TRUE), stored>>>>, Bool(FALSE))
       /\ UNCHANGED <<path, autosave, schemas, gen, crashed>>

\* exports.setFieldById(table, id, field, value, cb)
SetFieldById(table, id, field, value, copyFails) ==
    LET args == <<Str(table), id, Str(field), value>>
        schema == Get(schemas, table)
        f == Get(schema, field)
        c == CheckField(tables, TypeOf(f), value)
        rows == Get(tables, table)
        found == HasOwnProperty(rows, StringOf(id))
        row == Put(Get(rows, StringOf(id)), field, value)
        tbls == IF found THEN Put(tables, table, Put(rows, StringOf(id), row)) ELSE tables
    IN /\ ~crashed
       /\ IF Nullish(schemas) \/ Nullish(schema) \/ Nullish(f) \/ c.threw
          THEN /\ last' = Call("setFieldById", args,
                               IF Nullish(schemas) \/ Nullish(schema) \/ Nullish(f)
                               THEN Threw(TypeError, <<>>) ELSE c)
               /\ UNCHANGED <<tables, files, writes, fileExists>>
          ELSE IF Truthy(c.ret)
          THEN /\ tables' = tbls
               /\ Autosaved("setFieldById", args, tbls, copyFails,
                            IF found THEN <<<<Bool(TRUE), row>>>> ELSE <<<<Bool(FALSE), Null>>>>,
                            <<>>, Bool(TRUE))
          ELSE /\ last' = Call("setFieldById", args,
                               Returned(Bool(FALSE), <<<<Bool(FALSE), Null>>>>))
               /\ UNCHANGED <<tables, files, writes, fileExists>>
       /\ UNCHANGED <<path, autosave, schemas, uuids, execs, gen, crashed>>

\* exports.delete(table, id, cb)
Delete(table, id, copyFails) ==
    LET args == <<Str(table), id>>
        rows == Get(tables, table)
        \* let result = delete db.tables[table][id]
        result == TRUE
        tbls == Put(tables, table, Remove(rows, StringOf(id)))
    IN /\ ~crashed
       /\ IF Nullish(tables) \/ Nullish(rows)
          THEN /\ last' = Call("delete", args, Threw(TypeError, <<>>))
               /\ UNCHANGED <<tables, files, writes, fileExists>>
          ELSE /\ tables' = tbls
               /\ Autosaved("delete", args, tbls, copyFails,
                            <<<<Bool(result), id>>>>, <<>>, Undefined)
       /\ UNCHANGED <<path, autosave, schemas, uuids, execs, gen, crashed>>

\* exports.findById(table, id, cb)
FindById(table, id) ==
    LET args == <<Str(table), id>>
        rows == Get(tables, table)
        found == Get(rows, StringOf(ParseInt(id)))
    IN /\ ~crashed
       /\ last' = Call("findById", args,
                       IF Nullish(tables) \/ Nullish(rows) THEN Threw(TypeError, <<>>)
                       ELSE IF Truthy(found) THEN Returned(found, <<<<Bool(TRUE), found>>>>)
                       ELSE Returned(found, <<<<Bool(FALSE), id>>>>))
       /\ UNCHANGED <<path, autosave, fileExists, schemas, tables, uuids, execs,
                      gen, files, writes, crashed>>

\* findAll(table, field, value): the rows pushed, in for-in order
FindAll(table, field, value) ==
    LET matches == SelectSeq(table.p, LAMBDA q : StrictEquals(Get(q.val, field), value))
    IN [i \in 1..Len(matches) |-> matches[i].val]

\* query === {}: an object is never identical to a new object literal
IsEmptyLiteral(query) == FALSE

RECURSIVE FindEach(_, _, _, _)
\* the for (let key in query) loop of find, from the i-th key on: its calls of cb
FindEach(tableName, fields, query, i) ==
    IF i > Len(query.p) THEN <<>>
    ELSE LET key == query.p[i].key
             table == Get(tables, tableName)
             results == IF Nullish(table) THEN <<>>
                        ELSE FindAll(table, key, query.p[i].val)
             one == IF Includes(fields, key)
                    THEN IF Len(results) > 0
                         THEN <<Bool(TRUE), Arr(0, results)>>
                         ELSE <<Bool(TRUE), Undefined>>
                    ELSE <<Bool(FALSE),
                           Str(<<"Query table name does not exist, table:", " ">>
                                   \o tableName \o <<",", " ", "field", " ">> \o key)>>
         IN <<one>> \o FindEach(tableName, fields, query, i + 1)

\* exports.find(tableName, query, cb)
Find(tableName, query) ==
    LET args == <<Str(tableName), query>>
        schema == Get(schemas, tableName)
        fields == IF Nullish(schema) THEN <<>> ELSE Keys(schema)
        first == IF IsEmptyLiteral(query) THEN <<<<Get(tables, tableName)>>>> ELSE <<>>
    IN /\ ~crashed
       /\ last' = Call("find", args,
                       IF Nullish(schemas) \/ Nullish(tables) THEN Threw(TypeError, <<>>)
                       ELSE Returned(Undefined,
                                     first \o FindEach(tableName, fields, query, 1)))
       /\ UNCHANGED <<path, autosave, fileExists, schemas, tables, uuids, execs,
                      gen, files, writes, crashed>>

----------------------------------------------------------------------------
(* Asynchronous completions.                                               *)

\* handleOutput(err, stdout, stderr): a uuidgen child reports
Refill ==
    /\ ~crashed
    /\ execs > 0
    /\ uuids' = HandleOutput(uuids, UuidgenStdout(gen + 1))
    /\ gen' = gen + 1
    /\ execs' = execs - 1
    /\ UNCHANGED <<path, autosave, fileExists, schemas, tables, files, writes,
                   crashed, last>>

\* A pending fs.writeFile completes, having written the file (ok) or not, and
\* its callback runs.  The callback save() passes when it was given none
\* reads err, which is declared nowhere: a ReferenceError that nothing
\* catches.  A callback of the caller is handed the error.
WriteDone(ok) ==
    /\ ~crashed
    /\ writes # <<>>
    /\ LET w == Head(writes)
       IN /\ files' = IF ok THEN [files EXCEPT ![w.path] = w.data] ELSE files
          /\ crashed' = ~w.cb
          /\ last' = IF w.cb
                     THEN Call("save callback", <<>>,
                               Returned(Undefined, <<<<IF ok THEN Null ELSE Error("Error", <<W("writeFile")>>)>>>>))
                     ELSE Call("save callback", <<>>,
                               Threw(Error("ReferenceError", <<W("err")>>), <<>>))
    /\ writes' = Tail(writes)
    /\ UNCHANGED <<path, autosave, fileExists, schemas, tables, uuids, execs, gen>>


\* exports.saveSync().  copyFails, writeFails: the backup copy, the write
\* of the snapshot fails (fs raises an error).
SaveSync(copyFails, writeFails) ==
    LET d == DuplicateFileIfExists(files, path, fileExists, copyFails)
        dbJSON == Stringify(path, autosave, fileExists, schemas, tables)
        written == [d.files EXCEPT ![path] = dbJSON]
    IN /\ ~crashed
       /\ IF d.threw \/ path = NoPath \/ writeFails
          THEN /\ files' = d.files
               /\ last' = Call("saveSync", <<>>,
                               Threw(Error("Error", <<IF d.threw THEN W("copyFileSync")
                                                      ELSE W("writeFileSync")>>), <<>>))
               /\ UNCHANGED fileExists
          ELSE /\ files' = written
               /\ fileExists' = ExistsSync(written, path)
               /\ last' = Call("saveSync", <<>>, Returned(Bool(ExistsSync(written, path)), <<>>))
       /\ UNCHANGED <<path, autosave, schemas, tables, uuids, execs, gen, writes, crashed>>

\* exports.connect(name): db becomes what JSON.parse makes of the file
Connect(name) ==
    LET p == PathOf(name)
        args == <<Str(W(name))>>
    IN /\ ~crashed
       /\ IF ExistsSync(files, p)
          THEN /\ path' = files[p].path
               /\ autosave' = files[p].autosave
               /\ fileExists' = files[p].fileExists
               /\ schemas' = files[p].schemas
               /\ tables' = files[p].tables
               /\ last' = Call("connect", args, Returned(Bool(TRUE), <<>>))
          ELSE /\ path' = p
               /\ last' = Call("connect", args,
                               Threw(Error("Error", <<W("does not exist"), W(name)>>), <<>>))
               /\ UNCHANGED <<autosave, fileExists, schemas, tables>>
       /\ UNCHANGED <<uuids, execs, gen, files, writes, crashed>>

----------------------------------------------------------------------------
(* The callers' inputs.                                                    *)

\* a field declaration { type: token }
Field(token) == Obj(<<Prop(W("type"), Str(token))>>)

\* { Person: { name, age, born, tags, friends }, Pet: { owner } }
StoreSchema ==
    Obj(<<Prop(W("Person"),
               Obj(<<Prop(W("name"), Field(W("string"))),
                     Prop(W("age"), Field(W("number"))),
                     Prop(W("born"), Field(W("date"))),
                     Prop(W("tags"), Field(<<"array", " ", "number">>)),
                     Prop(W("friends"), Field(<<"array", " ", "id", " ", "Person">>))>>)),
          Prop(W("Pet"),
               Obj(<<Prop(W("owner"), Field(<<"id", " ", "Person">>))>>))>>)

\* the identifier the generator produces at its n-th run
Uuid(n) == Str(ReplaceNewline(UuidgenStdout(n)))

\* identifiers a caller may pass: the two generated at load, the next one
\* generated, and the name of a member of Object.prototype
IdInputs == {Uuid(1), Uuid(2), Uuid(3), Str(W("constructor"))}

\* one-property object literals
One(key, val) == Obj(<<Prop(W(key), val)>>)

Ada == Str(W("Ada"))
Bob == Str(W("Bob"))

Person == W("Person")
Pet == W("Pet")

AllPaths ==
    {PathOf(n) : n \in {"db", "db2"}} \cup {OldPathOf(PathOf(n)) : n \in {"db", "db2"}}

\* calls of uuidQueue.get() so far: each started one uuidgen child
Gets == gen - InitialUuids + execs

Init ==
    /\ path = NoPath
    /\ autosave = FALSE
    /\ fileExists = FALSE
    /\ schemas = Undefined
    /\ tables = Undefined
    /\ uuids = InitialBuffer
    /\ execs = 0
    /\ gen = InitialUuids
    /\ files = [p \in AllPaths |-> NoFile]
    /\ writes = <<>>
    /\ crashed = FALSE
    /\ last = Call("require", <<>>, Returned(Undefined, <<>>))

----------------------------------------------------------------------------
(* The table operations on a database created without autosave.            *)

\* inserts that reach uuidQueue.get() in one exploration
MaxGets == 2

DoCreate == Create("db", StoreSchema, FALSE)

DoInsert ==
    \E t \in {Person, Pet} :
        \E e \in IF t = Person THEN {One("name", Ada)}
                 ELSE {One("owner", id) : id \in IdInputs} :
            Gets < MaxGets /\ Insert(t, e, FALSE)

DoSetFieldById ==
    \E id \in IdInputs, v \in IdInputs : SetFieldById(Pet, id, W("owner"), v, FALSE)

DoDelete == \E t \in {Person, Pet}, id \in IdInputs : Delete(t, id, FALSE)

DoFindById == \E t \in {Person, Pet}, id \in IdInputs : FindById(t, id)

Next ==
    \/ DoCreate
    \/ DoInsert
    \/ DoSetFieldById
    \/ DoDelete
    \/ DoFindById
    \/ Refill

Spec == Init /\ [][Next]_vars

----------------------------------------------------------------------------
(* Claims about the table operations.                                      *)

\* v is the identifier of a row now stored in table t
IsRowId(t, v) == v.k = "string" /\ HasOwnProperty(Get(tables, t), v.s)

\* the last call was op on table t and raised nothing
Completed(op, t) == last.op = op /\ last.args[1] = Str(t) /\ ~last.out.threw

\* C3: for the field owner of type 'id Person', insert and setFieldById
\* accept a value iff it is the identifier of a row now stored in Person.  (A
\* call on Pet leaves Person as it was when the value was checked.)
C3_ReferentialValidation ==
    /\ (last.op = "insert" /\ last.args[1] = Str(Pet))
           => (~last.out.threw <=> IsRowId(Person, Get(last.args[2], W("owner"))))
    /\ (last.op = "setFieldById" /\ last.args[1] = Str(Pet))
           => (last.out.ret = Bool(TRUE) <=> IsRowId(Person, last.args[4]))

\* C7: findById(table, id) returns the record stored under id iff id is a row
\* identifier of the table, and none otherwise.
C7_FindByIdIsLookup ==
    \A t \in {Person, Pet} :
        Completed("findById", t) =>
            last.out.ret = IF IsRowId(t, last.args[2])
                           THEN Get(Get(tables, t), last.args[2].s)
                           ELSE Undefined

\* C8: delete(table, id) reports true iff a row with that id was in the table
\* just before the call, and that row is absent afterwards.
C8_DeleteResult ==
    [][\A t \in {Person, Pet}, id \in IdInputs :
           (Delete(t, id, FALSE) /\ ~last'.out.threw) =>
               /\ last'.out.cbs[1][1] = Bool(IsRowId(t, id))
               /\ ~IsRowId(t, id)']_vars

\* C15: delete(table, id) removes the row id from that table and changes
\* nothing else: the other rows of the table, the rows of the other tables
\* (those that refer to id included) and the schemas stay as they were.
C15_NoCascade ==
    [][\A t \in {Person, Pet}, id \in IdInputs :
           (Delete(t, id, FALSE) /\ ~last'.out.threw) =>
               /\ schemas' = schemas
               /\ Keys(tables') = Keys(tables)
               /\ \A u \in {Person, Pet} \ {t} : Get(tables', u) = Get(tables, u)
               /\ Get(tables', t).p
                      = SelectSeq(Get(tables, t).p, LAMBDA q : q.key # StringOf(id))]_vars

\* a row of Person has been deleted and a row of Pet still names it as owner
C15_Witness ==
    /\ Completed("delete", Person)
    /\ ~IsRowId(Person, last.args[2])
    /\ \E i \in 1..Len(Get(tables, Pet).p) :
           Get(Get(tables, Pet).p[i].val, W("owner")) = last.args[2]

----------------------------------------------------------------------------
(* Queries.                                                                *)

\* inserts that reach uuidQueue.get() in one exploration of the queries
FindMaxGets == 3

\* two Date objects of the same time value
Day1 == Date(1, 0)
Day2 == Date(2, 0)

FindInsert ==
    \E e \in {One("name", Ada), One("name", Bob), One("born", Day1)} :
        Gets < FindMaxGets /\ Insert(Person, e, FALSE)

FindDelete == \E id \in {Uuid(1), Uuid(2)} : Delete(Person, id, FALSE)

DoFind ==
    \E q \in {Obj(<<>>), One("name", Ada), One("born", Day1), One("born", Day2)} :
        Find(Person, q)

NextFind ==
    \/ DoCreate
    \/ FindInsert
    \/ FindDelete
    \/ DoFind
    \/ Refill

SpecFind == Init /\ [][NextFind]_vars

RECURSIVE ValueEquals(_, _)
\* equality by value: dates by their time, arrays member by member
ValueEquals(a, b) ==
    /\ a.k = b.k
    /\ CASE a.k = "date" -> a.t = b.t
         [] a.k = "array" ->
              /\ Len(a.e) = Len(b.e)
              /\ \A i \in 1..Len(a.e) : ValueEquals(a.e[i], b.e[i])
         [] OTHER -> a = b

\* the rows of table t, in the order of their insertion (no identifier is
\* assigned twice within FindMaxGets inserts)
Rows(t) == LET o == Get(tables, t) IN [i \in 1..Len(o.p) |-> o.p[i].val]

\* the rows a successful callback was handed: none for undefined
Delivered(cb) == IF cb[2].k = "array" THEN cb[2].e ELSE <<>>

\* C9: find(table, {field: v}) hands the caller, as one successful result,
\* exactly the rows of the table whose field equals v, in insertion order,
\* and an empty result when there is none.
C9_QueryExactness ==
    (Completed("find", Person) /\ Len(last.args[2].p) = 1) =>
        LET q == last.args[2].p[1]
        IN /\ Len(last.out.cbs) = 1
           /\ last.out.cbs[1][1] = Bool(TRUE)
           /\ Delivered(last.out.cbs[1])
                  = SelectSeq(Rows(Person), LAMBDA r : ValueEquals(Get(r, q.key), q.val))

\* C10: find(table, {}) hands the caller one successful result that holds
\* every row of the table, in insertion order.
C10_EmptyPredicate ==
    (Completed("find", Person) /\ last.args[2].p = <<>>) =>
        /\ Len(last.out.cbs) = 1
        /\ last.out.cbs[1][1] = Bool(TRUE)
        /\ Delivered(last.out.cbs[1]) = Rows(Person)

----------------------------------------------------------------------------
(* Inserts under autosave.                                                 *)

\* inserts that reach uuidQueue.get() in one exploration of autosave
SaveMaxGets == 2

SaveCreate == \E n \in {"db", "db2"}, as \in BOOLEAN : Create(n, StoreSchema, as)

SaveInsert ==
    \E e \in {One("name", Ada), One("name", Num(7))}, copyFails \in BOOLEAN :
        Gets < SaveMaxGets /\ Insert(Person, e, copyFails)

DoSaveSync == \E copyFails \in BOOLEAN, writeFails \in BOOLEAN : SaveSync(copyFails, writeFails)

DoWriteDone == \E ok \in BOOLEAN : WriteDone(ok)

NextSave ==
    \/ SaveCreate
    \/ SaveInsert
    \/ DoSaveSync
    \/ DoWriteDone
    \/ Refill

SpecSave == Init /\ [][NextSave]_vars

\* C1: an insert that raises an error leaves every table with the rows it had.
C1_InsertAtomicity ==
    [][\A e \in {One("name", Ada), One("name", Num(7))}, copyFails \in BOOLEAN :
           (Insert(Person, e, copyFails) /\ last'.out.threw) => tables' = tables]_vars

\* C14: saveSync on a created database raises nothing: it returns true
\* when it has written the snapshot, and false when the backup copy or the
\* write of the snapshot failed.
C14_SaveSyncOutcome ==
    [][\A copyFails \in BOOLEAN, writeFails \in BOOLEAN :
           (SaveSync(copyFails, writeFails) /\ path # NoPath) =>
               /\ ~last'.out.threw
               /\ last'.out.ret
                      = Bool(files'[path]
                                 = Stringify(path, autosave, fileExists, schemas, tables))]_vars

\* C17: a saveSync that meets no I/O failure copies the snapshot at the
\* target path, if there is one, to '.old' and then writes the new snapshot;
\* when there is no snapshot it makes no backup and still writes.
C17_BackupRotation ==
    [][(SaveSync(FALSE, FALSE) /\ path # NoPath) =>
           /\ files'[OldPathOf(path)]
                  = IF ExistsSync(files, path) THEN files[path] ELSE files[OldPathOf(path)]
           /\ files'[path] = Stringify(path, autosave, fileExists, schemas, tables)]_vars

\* C19: a create that fails leaves the path, the autosave flag, the schemas
\* and the tables as they were.
C19_FailedCreateNotApplied ==
    [][\A n \in {"db", "db2"}, as \in BOOLEAN :
           (Create(n, StoreSchema, as) /\ last'.out.threw) =>
               /\ path' = path
               /\ autosave' = autosave
               /\ schemas' = schemas
               /\ tables' = tables]_vars

----------------------------------------------------------------------------
(* The identifier queue.                                                   *)

\* inserts that reach uuidQueue.get() in one exploration of the queue
IdsMaxGets == 4

IdsInsert ==
    \E t \in {Person, Pet} :
        \E e \in IF t = Person THEN {One("name", Ada), One("name", Bob)} ELSE {Obj(<<>>)} :
            Gets < IdsMaxGets /\ Insert(t, e, FALSE)

NextIds ==
    \/ DoCreate
    \/ IdsInsert
    \/ Refill

SpecIds == Init /\ [][NextIds]_vars

\* C2: consecutive successful inserts are assigned pairwise distinct
\* identifiers: no insert is assigned the identifier under which an earlier
\* insert stored its row (no row is removed in this specification).
C2_IdentifierUniqueness ==
    [][\A t \in {Person, Pet} :
           \A e \in {One("name", Ada), One("name", Bob), Obj(<<>>)} :
               (Insert(t, e, FALSE) /\ ~last'.out.threw) =>
                   LET id == Get(last'.out.cbs[1][2], W("_id"))
                   IN \A u \in {Person, Pet} :
                          ~HasOwnProperty(Get(tables, u), StringOf(id))]_vars

\* every row stored under a key k carries an _id that is the string k
ConsistentIds ==
    Nullish(tables) \/
        \A t \in {Person, Pet} :
            \A i \in 1..Len(Get(tables, t).p) :
                LET q == Get(tables, t).p[i]
                IN Get(q.val, W("_id")) = Str(q.key)

\* C20: after every step each stored row carries, as its _id, the string it
\* is stored under, and a row that stays in its table keeps its _id.
C20_IdentifierConsistency ==
    [][/\ ConsistentIds'
       /\ ~Nullish(tables) =>
              \A t \in {Person, Pet} :
                  \A i \in 1..Len(Get(tables, t).p) :
                      LET q == Get(tables, t).p[i]
                      IN HasOwnProperty(Get(tables', t), q.key) =>
                             Get(Get(Get(tables', t), q.key), W("_id"))
                                 = Get(q.val, W("_id"))]_vars

----------------------------------------------------------------------------
(* Validation of field values.                                             *)

\* inserts that reach uuidQueue.get() in one exploration of the validator
ValidateMaxGets == 1

\* fields a row may hold for setFieldById to be applied to it once more
ValidateMaxFields == 1

\* values of every runtime kind
ValueInputs ==
    {Undefined, Null, Bool(TRUE), Num(0), Num(7), Str(<<>>), Str(W("Ada")), Str(<<"7">>),
     Day1, Uuid(1), Uuid(3),
     Arr(1, <<>>), Arr(1, <<Num(1), Num(2)>>), Arr(1, <<Num(1), Str(W("Ada"))>>),
     Arr(1, <<Str(W("Ada"))>>), Arr(1, <<Uuid(1)>>), Arr(1, <<Uuid(1), Uuid(3)>>)}

PersonFields == {"name", "age", "born", "tags", "friends"}

ValidateInsert ==
    \E f \in PersonFields, v \in ValueInputs :
        Gets < ValidateMaxGets /\ Insert(Person, One(f, v), FALSE)

\* the own properties of the row stored under id in table t, none if there
\* is no such row
Properties(t, id) ==
    IF IsRowId(t, id) THEN Keys(Get(Get(tables, t), id.s)) ELSE <<>>

\* the values setFieldById is given
SetValueInputs ==
    {Num(0), Num(7), Str(<<"7">>), Day1, Arr(1, <<>>),
     Arr(1, <<Num(1), Str(W("Ada"))>>), Arr(1, <<Uuid(3)>>)}

ValidateSetFieldById ==
    \E f \in PersonFields, v \in SetValueInputs :
        /\ Len(Properties(Person, Uuid(1))) <= ValidateMaxFields + 1   \* and _id
        /\ SetFieldById(Person, Uuid(1), W(f), v, FALSE)

NextValidate ==
    \/ DoCreate
    \/ ValidateInsert
    \/ ValidateSetFieldById

SpecValidate == Init /\ [][NextValidate]_vars

\* the declared type of a field of Person
DeclaredType(f) == TypeOf(Get(Get(StoreSchema, Person), f)).s

\* the field and value the last insert or setFieldById carried, and whether
\* the validator accepted the value
Carried ==
    IF last.op = "insert"
    THEN [field |-> last.args[2].p[1].key, value |-> last.args[2].p[1].val,
          accepted |-> ~last.out.threw]
    ELSE [field |-> last.args[3].s, value |-> last.args[4],
          accepted |-> last.out.ret = Bool(TRUE)]

\* a call on the created database that carried one field of Person
Validated == last.op \in {"insert", "setFieldById"} /\ ~Nullish(schemas)

\* C4: a value is accepted for a field of scalar kind number, string or date
\* iff its runtime kind is that kind.
C4_ScalarValidation ==
    (Validated /\ Carried.field \in {W("name"), W("age"), W("born")}) =>
        (Carried.accepted <=> Carried.value.k = DeclaredType(Carried.field)[1])

\* v is a member an array of the declared type may hold
ValidMember(type, v) ==
    IF Split(type)[2] = W("id") THEN IsRowId(Split(type)[3], v)
    ELSE v.k = Split(type)[2][1]

\* C5: a non-empty array with a member of the wrong kind, or a member that
\* is not the identifier of a row of the referenced table, is rejected.
C5_ArrayValidation ==
    (/\ Validated
     /\ Carried.field \in {W("tags"), W("friends")}
     /\ Carried.value.k = "array"
     /\ \E i \in 1..Len(Carried.value.e) :
            ~ValidMember(DeclaredType(Carried.field), Carried.value.e[i]))
        => ~Carried.accepted

\* v conforms to the declared type: a value of the scalar kind, the
\* identifier of a row of the referenced table, or an array of such members
Conforming(type, v) ==
    LET s == Split(type)
    IN CASE Len(s) = 1 -> v.k = s[1][1]
         [] s[1] = W("id") -> IsRowId(s[2], v)
         [] OTHER -> v.k = "array" /\ \A i \in 1..Len(v.e) : ValidMember(type, v.e[i])

\* C12: setFieldById with a conforming value on an id that is no row reports
\* not-found (true returned, the callback told false), which is not what a
\* non-conforming value gets, and neither changes the tables; a conforming
\* value on a row changes that field of that row and hands the callback the
\* updated record.
C12_SetFieldOutcomes ==
    [][\A f \in PersonFields, v \in SetValueInputs :
           (SetFieldById(Person, Uuid(1), W(f), v, FALSE) /\ ~Nullish(schemas)) =>
               LET conf == Conforming(DeclaredType(W(f)), v)
                   present == IsRowId(Person, Uuid(1))
                   notFound == /\ ~last'.out.threw
                               /\ last'.out.ret = Bool(TRUE)
                               /\ last'.out.cbs = <<<<Bool(FALSE), Null>>>>
                   rows == Get(tables, Person)
                   updated == Put(Get(rows, Uuid(1).s), W(f), v)
               IN /\ (conf /\ ~present) => (notFound /\ tables' = tables)
                  /\ ~conf => (~notFound /\ tables' = tables)
                  /\ (conf /\ present) =>
                         /\ tables' = Put(tables, Person, Put(rows, Uuid(1).s, updated))
                         /\ last'.out.cbs = <<<<Bool(TRUE), updated>>>>]_vars

----------------------------------------------------------------------------
(* The schema check of create.                                             *)

\* the type tokens the schemas are built of: the six supported shapes, and
\* tokens of one to four segments that are none of them
TokenInputs ==
    {W("string"), W("number"),
     <<"array", " ", "date">>,
     <<"id", " ", "Pet">>,
     <<"array", " ", "id", " ", "Person">>,
     W("text"),
     <<"foo", " ", "bar">>,
     <<"array", " ", "text">>,
     <<"id", " ", "Nope">>,
     <<"array", " ", "id">>,
     <<"array", " ", "id", " ", "Nope">>,
     <<"foo", " ", "id", " ", "Person">>,
     <<"array", " ", "number", " ", "Person">>,
     <<"array", " ", "id", " ", "Person", " ", "x">>}

\* { Person: { a: t1, b: t2 }, Pet: { c: t3 } }
SchemaOf(t1, t2, t3) ==
    Obj(<<Prop(Person, Obj(<<Prop(W("a"), Field(t1)), Prop(W("b"), Field(t2))>>)),
          Prop(Pet, Obj(<<Prop(W("c"), Field(t3))>>))>>)

\* the first call made of a freshly loaded module is a create
CompileCreate ==
    \E t1 \in TokenInputs, t2 \in TokenInputs, t3 \in TokenInputs :
        last.op = "require" /\ Create("db", SchemaOf(t1, t2, t3), FALSE)

NextCompile == CompileCreate

SpecCompile == Init /\ [][NextCompile]_vars

\* the type token is one of number, string, date, 'array <scalar kind>',
\* 'id <declared table>', 'array id <declared table>'
Conforms(token, declared) ==
    LET s == Split(token)
        scalar == {W("number"), W("string"), W("date")}
    IN \/ Len(s) = 1 /\ s[1] \in scalar
       \/ Len(s) = 2 /\ s[1] = W("array") /\ s[2] \in scalar
       \/ Len(s) = 2 /\ s[1] = W("id") /\ s[2] \in declared
       \/ Len(s) = 3 /\ s[1] = W("array") /\ s[2] = W("id") /\ s[3] \in declared

\* the type tokens of the schema { Person: { a, b }, Pet: { c } }, in the
\* order of their declaration
TokensOf(schema) ==
    LET person == Get(schema, Person)
        pet == Get(schema, Pet)
    IN <<TypeOf(person.p[1].val).s, TypeOf(person.p[2].val).s, TypeOf(pet.p[1].val).s>>

\* C6: create fails on every schema that holds a type token that is not of a
\* supported shape, and the error names the first such token; the schema is
\* not accepted.
C6_SchemaCompileSoundness ==
    last.op = "create" =>
        LET tokens == TokensOf(last.args[2])
            offending == {i \in 1..3 : ~Conforms(tokens[i], {Person, Pet})}
        IN offending # {} =>
               /\ last.out.threw
               /\ last.out.error.names[2]
                      = tokens[CHOOSE i \in offending : \A j \in offending : i <= j]
               /\ schemas = Undefined

----------------------------------------------------------------------------
(* Saving a database and loading it again.                                 *)

\* inserts that reach uuidQueue.get() in one exploration of the round trip
RoundTripMaxGets == 2

RoundTripInsert ==
    \E e \in {One("name", Ada), One("age", Num(7)), One("born", Day1)} :
        Gets < RoundTripMaxGets /\ Insert(Person, e, FALSE)

RoundTripDelete == \E id \in {Uuid(1), Uuid(2)} : Delete(Person, id, FALSE)

RoundTripSaveSync == SaveSync(FALSE, FALSE)

DoConnect == Connect("db")

NextRoundTrip ==
    \/ DoCreate
    \/ RoundTripInsert
    \/ RoundTripDelete
    \/ RoundTripSaveSync
    \/ DoConnect

SpecRoundTrip == Init /\ [][NextRoundTrip]_vars

RECURSIVE Content(_)
\* a value without the identities of the objects in it: what two values
\* with identical contents have in common
Content(v) ==
    CASE v.k = "date" -> Date(0, v.t)
      [] v.k = "array" -> Arr(0, [i \in 1..Len(v.e) |-> Content(v.e[i])])
      [] v.k = "object" -> Obj([i \in 1..Len(v.p) |-> Prop(v.p[i].key, Content(v.p[i].val))])
      [] OTHER -> v

\* C11: a connect that follows a completed saveSync of the same name yields
\* the schemas and the rows, date values included, that the database had at
\* the time of the save.
C11_PersistenceRoundTrip ==
    [][(last.op = "saveSync" /\ last.out.ret = Bool(TRUE) /\ Connect("db")
            /\ ~last'.out.threw)
           => /\ Content(schemas') = Content(schemas)
              /\ Content(tables') = Content(tables)]_vars

----------------------------------------------------------------------------
(* Autosave.                                                               *)

\* inserts that reach uuidQueue.get() in one exploration of autosave's saves
AutosaveMaxGets == 2

\* writes that may be pending at once
AutosaveMaxWrites == 2

AutosaveCreate == \E as \in BOOLEAN : Create("db", StoreSchema, as)

AutosaveInsert ==
    \E copyFails \in BOOLEAN :
        /\ Gets < AutosaveMaxGets
        /\ Len(writes) < AutosaveMaxWrites
        /\ Insert(Person, One("name", Ada), copyFails)

AutosaveSetFieldById ==
    \E id \in {Uuid(1), Uuid(3)}, v \in {Bob, Num(7)}, copyFails \in BOOLEAN :
        /\ Len(writes) < AutosaveMaxWrites
        /\ SetFieldById(Person, id, W("name"), v, copyFails)

AutosaveDelete ==
    \E copyFails \in BOOLEAN :
        /\ Len(writes) < AutosaveMaxWrites
        /\ Delete(Person, Uuid(1), copyFails)

NextAutosave ==
    \/ AutosaveCreate
    \/ AutosaveInsert
    \/ AutosaveSetFieldById
    \/ AutosaveDelete
    \/ DoWriteDone
    \/ Refill

SpecAutosave == Init /\ [][NextAutosave]_vars

\* the step is an insert, a setFieldById or a delete
Mutates ==
    \E copyFails \in BOOLEAN :
        \/ Insert(Person, One("name", Ada), copyFails)
        \/ \E id \in {Uuid(1), Uuid(3)}, v \in {Bob, Num(7)} :
               SetFieldById(Person, id, W("name"), v, copyFails)
        \/ Delete(Person, Uuid(1), copyFails)

\* the call of the step raised nothing and did not report a failure to its
\* callback
Succeeds ==
    /\ ~last'.out.threw
    /\ last'.out.cbs # <<>>
    /\ last'.out.cbs[1][1] = Bool(TRUE)

C16_SaveMutualExclusion ==
    \A i \in 1..Len(writes), j \in 1..Len(writes) :
        i # j => writes[i].path # writes[j].path

\* C18: the completion of a save's write, successful or not, never ends in
\* an uncaught exception: the callback that runs raises nothing and the
\* process goes on.
C18_SaveFailureDoesNotCrash ==
    /\ ~crashed
    /\ last.op = "save callback" => ~last.out.threw

----------------------------------------------------------------------------
(* Queries that name a field the schema does not declare.                  *)

\* inserts that reach uuidQueue.get() in one exploration of these queries
QueryMaxGets == 2

QueryInsert ==
    \E e \in {One("name", Ada), One("name", Bob)} :
        Gets < QueryMaxGets /\ Insert(Person, e, FALSE)

\* { name: 'Ada' }, { nick: 'Ada' } and the two-key queries made of them
QueryInputs ==
    {One("name", Ada),
     One("nick", Ada),
     Obj(<<Prop(W("name"), Ada), Prop(W("nick"), Ada)>>),
     Obj(<<Prop(W("nick"), Ada), Prop(W("name"), Ada)>>),
     Obj(<<Prop(W("name"), Ada), Prop(W("age"), Num(7))>>)}

QueryFind == \E q \in QueryInputs : Find(Person, q)

NextQuery ==
    \/ DoCreate
    \/ QueryInsert
    \/ QueryFind
    \/ Refill

SpecQuery == Init /\ [][NextQuery]_vars

\* the keys of the query that are no declared field of Person
Undeclared(query) ==
    {i \in 1..Len(query.p) : ~Includes(Keys(Get(StoreSchema, Person)), query.p[i].key)}

\* C21: a find whose query has a key that is no declared field hands the
\* caller one outcome only, a failure that names the table and an undeclared
\* key, and no successful result for the other keys.
C21_UnknownFieldFailsQuery ==
    (Completed("find", Person) /\ Undeclared(last.args[2]) # {}) =>
        /\ Len(last.out.cbs) = 1
        /\ last.out.cbs[1][1] = Bool(FALSE)
        /\ \E i \in Undeclared(last.args[2]) :
               last.out.cbs[1][2]
                   = Str(<<"Query table name does not exist, table:", " ">>
                             \o Person \o <<",", " ", "field", " ">>
                             \o last.args[2].p[i].key)

====
